---- MODULE Spec2Model ----
(***************************************************************************)
(* Ingestion-and-enrichment pipeline of the editorial news aggregator.     *)
(*                                                                         *)
(*   backend/app/models/source.py       Source: health tracking, schedule  *)
(*   backend/app/services/rss_scraper.py RSSScraperService: fetch, extract *)
(*   backend/app/core/config.py         Settings                           *)
(*                                                                         *)
(* Conventions.  A Python None is the empty sequence <<>> and a value v    *)
(* that may be None is <<v>>.  Times are whole seconds.  A Python float    *)
(* that is a quotient is kept exact as the pair <<numerator, denominator>>.*)
(* Timestamps written with func.now() are read back as the time of the     *)
(* write, in UTC, on the same clock datetime.utcnow() reads.               *)
(***************************************************************************)
EXTENDS Integers, Sequences, FiniteSets, TLC

VARIABLES
    now,          \* the clock read by datetime.utcnow() / func.now(), seconds
    source,       \* the Source row
    lastOp,       \* history: the last operation applied to the source
    failRun,      \* history: failures reported since the last success
    prevFailRun,  \* history: failRun before the last update_health_status
    prevStatus,   \* history: health_status before the last update_health_status
    statsCalls,   \* history: number of update_fetch_stats calls so far
    fetchedAt,    \* history: clock reading of the last update_fetch_stats, or None
    MAX_RETRIES,  \* settings.MAX_RETRIES of the running process
    pc,           \* position of the fetch_feed call
    attempt,      \* fetch_feed: loop variable of the retry loop
    feed_data,    \* fetch_feed: parsed feed, None until a request succeeds
    last_error,   \* fetch_feed: message of the last failed attempt, or None
    log,          \* history: sleeps and requests of the call, in order
    lastOutcome,  \* history: how the most recent request ended, or None
    result,       \* the tuple fetch_feed returned, or None while it runs
    call,         \* the arguments of a call of a function of the services
    ret,          \* what that call returned, or None before it has
    store,        \* the rows of the articles table, in order of insertion
    reports,      \* history: what each upsert reported, in order
    sum_article,  \* summarize_article: the Article it is given
    model_name,   \* summarize_article: the model asked for, or None
    sum_pc,       \* position of the summarize_article call
    local_models, \* SummarizationService.local_models: names of the loaded models
    openai_client,\* SummarizationService.openai_client is set
    backend_log,  \* history: model loads and backend invocations, in order
    sum_result,   \* the tuple summarize_article returned, or None while it runs
    article_before, \* history: the Article as summarize_article received it
    batch_articles, \* batch_summarize_articles: the articles it is given
    batch_size,   \* batch_summarize_articles: its batch_size argument, or None
    batch_pc,     \* position of the batch_summarize_articles call
    batch_lo,     \* batch_summarize_articles: index of the first article of the batch
    task,         \* the summarize_article call of each article: how far it is
    task_outcome, \* history: what each finished call returned or raised
    results,      \* batch_summarize_articles: the dict it builds, by article id
    batch_raised  \* history: the except clause of batch_summarize_articles ran

vars == <<now, source, lastOp, failRun, prevFailRun, prevStatus, statsCalls, fetchedAt,
          MAX_RETRIES, pc, attempt, feed_data, last_error, log, lastOutcome,
          result, call, ret, store, reports, sum_article, model_name, sum_pc,
          local_models, openai_client, backend_log, sum_result, article_before,
          batch_articles, batch_size, batch_pc, batch_lo, task, task_outcome,
          results, batch_raised>>

sourceVars == <<now, source, lastOp, failRun, prevFailRun, prevStatus, statsCalls,
               fetchedAt>>
fetchVars  == <<MAX_RETRIES, pc, attempt, feed_data, last_error, log, lastOutcome,
               result>>

callVars   == <<call, ret>>
storeVars  == <<store, reports>>
sumVars    == <<sum_article, model_name, sum_pc, local_models, openai_client,
               backend_log, sum_result, article_before>>
batchVars  == <<batch_articles, batch_size, batch_pc, batch_lo, task,
               task_outcome, results, batch_raised>>

None == <<>>
Some(v) == <<v>>

(***************************************************************************)
(* Bounds of the model.                                                    *)
(***************************************************************************)
MaxFetches  == 6     \* update_health_status calls explored
MaxStats    == 2     \* update_fetch_stats calls explored
MaxNow      == 120   \* the clock stops advancing here (seconds)
MaxRetriesCfg == 4   \* MAX_RETRIES settings explored: 0..MaxRetriesCfg
MaxEntries  == 2     \* entries in a feed document
MaxTail     == 2     \* characters of a body beyond the hashed prefix
MaxStore    == 4     \* rows of the articles table
MaxSummaryLen == 3   \* tokens of a backend summary given to _post_process_summary
MaxArticles == 3     \* articles given to batch_summarize_articles

TickSteps        == {60}        \* seconds the clock advances in one step
FetchIntervals   == {0, 2}      \* fetch_interval_minutes values explored
ArticleCounts    == {0, 2}      \* articles_count arguments explored
ResponseTimes    == {2}         \* response_time arguments explored (seconds)
ErrorMessages    == {None, Some("timeout")}   \* error_message arguments

(***************************************************************************)
(* Source (models/source.py)                                               *)
(***************************************************************************)

\* Column defaults of a new row, with the fetch policy given by configuration.
NewSource(active, interval, delay, maxArticles, hasUrl, keywords, excludes) ==
    [ is_active                |-> active,
      health_status            |-> "healthy",
      last_successful_fetch    |-> None,
      last_error               |-> None,
      error_count              |-> 0,
      fetch_interval_minutes   |-> interval,
      request_delay            |-> delay,
      max_articles_per_fetch   |-> maxArticles,
      fetch_url                |-> IF hasUrl THEN "http://feed" ELSE "",
      keyword_filters          |-> keywords,
      exclude_keywords         |-> excludes,
      avg_response_time        |-> None,
      success_rate             |-> <<1, 1>>,
      total_articles_fetched   |-> 0,
      total_successful_fetches |-> 0,
      total_failed_fetches     |-> 0,
      avg_articles_per_fetch   |-> <<0, 1>>,
      last_fetched             |-> None ]

\* needs_fetch with the interval test made strict.
needs_fetch_strict(s, t) ==
    IF ~s.is_active THEN FALSE
    ELSE IF s.last_fetched = None THEN TRUE
    ELSE (t - s.last_fetched[1]) > s.fetch_interval_minutes * 60

\* Source.needs_fetch at clock reading t.
needs_fetch(s, t) ==
    IF ~s.is_active THEN FALSE
    ELSE IF s.last_fetched = None THEN TRUE
    ELSE (t - s.last_fetched[1]) >= s.fetch_interval_minutes * 60

\* update_health_status, success branch: "if self.error_count == 0".
status_after_success(error_count, health_status) ==
    IF error_count = 0 THEN "healthy" ELSE health_status

\* status_after_failure with the warning threshold one too high.
status_after_failure_late_warning(error_count, health_status) ==
    IF error_count >= 5 THEN "error"
    ELSE IF error_count > 2 THEN "warning"
    ELSE health_status

\* status_after_failure with the error threshold one too high.
status_after_failure_late_error(error_count, health_status) ==
    IF error_count > 5 THEN "error"
    ELSE IF error_count >= 2 THEN "warning"
    ELSE health_status

\* update_health_status, failure branch: the status for the new error count.
status_after_failure(error_count, health_status) ==
    IF error_count >= 5 THEN "error"
    ELSE IF error_count >= 2 THEN "warning"
    ELSE health_status

\* Source.update_health_status at clock reading t.
update_health_status(s, is_success, error_message, t) ==
    LET s1 == IF is_success
              THEN [s EXCEPT !.last_successful_fetch = Some(t),
                             !.total_successful_fetches = @ + 1,
                             !.error_count = 0,
                             !.last_error = None]
              ELSE [s EXCEPT !.total_failed_fetches = @ + 1,
                             !.error_count = @ + 1,
                             !.last_error = error_message]
        s2 == [s1 EXCEPT !.health_status =
                  IF is_success THEN status_after_success(s1.error_count, @)
                  ELSE status_after_failure(s1.error_count, @)]
        total_fetches == s2.total_successful_fetches + s2.total_failed_fetches
    IN  IF total_fetches > 0
        THEN [s2 EXCEPT !.success_rate = <<s2.total_successful_fetches, total_fetches>>]
        ELSE s2

\* update_fetch_stats that stamps last_fetched on the first fetch only.
update_fetch_stats_stale_stamp(s, articles_count, response_time, t) ==
    LET s1 == [s EXCEPT !.last_fetched = IF @ = None THEN Some(t) ELSE @,
                        !.total_articles_fetched = @ + articles_count]
        total_fetches == s1.total_successful_fetches + s1.total_failed_fetches
        s2 == IF total_fetches > 0
              THEN [s1 EXCEPT !.avg_articles_per_fetch =
                                  <<s1.total_articles_fetched, total_fetches>>]
              ELSE s1
    IN  IF s2.avg_response_time = None
        THEN [s2 EXCEPT !.avg_response_time = Some(<<response_time, 1>>)]
        ELSE LET a == s2.avg_response_time[1]
             IN  [s2 EXCEPT !.avg_response_time =
                     Some(<<4 * a[1] + response_time * a[2], 5 * a[2]>>)]

update_fetch_stats_per_success(s, articles_count, response_time, t) ==
    LET s1 == [s EXCEPT !.last_fetched = Some(t),
                        !.total_articles_fetched = @ + articles_count]
        total_fetches == s1.total_successful_fetches
        s2 == IF total_fetches > 0
              THEN [s1 EXCEPT !.avg_articles_per_fetch =
                                  <<s1.total_articles_fetched, total_fetches>>]
              ELSE s1
    IN  IF s2.avg_response_time = None
        THEN [s2 EXCEPT !.avg_response_time = Some(<<response_time, 1>>)]
        ELSE LET a == s2.avg_response_time[1]
             IN  [s2 EXCEPT !.avg_response_time =
                     Some(<<4 * a[1] + response_time * a[2], 5 * a[2]>>)]

\* Source.update_fetch_stats at clock reading t.
update_fetch_stats(s, articles_count, response_time, t) ==
    LET s1 == [s EXCEPT !.last_fetched = Some(t),
                        !.total_articles_fetched = @ + articles_count]
        total_fetches == s1.total_successful_fetches + s1.total_failed_fetches
        s2 == IF total_fetches > 0
              THEN [s1 EXCEPT !.avg_articles_per_fetch =
                                  <<s1.total_articles_fetched, total_fetches>>]
              ELSE s1
    IN  IF s2.avg_response_time = None
        THEN [s2 EXCEPT !.avg_response_time = Some(<<response_time, 1>>)]
        ELSE LET a == s2.avg_response_time[1]
             IN  \* a * 0.8 + response_time * 0.2
                 [s2 EXCEPT !.avg_response_time =
                     Some(<<4 * a[1] + response_time * a[2], 5 * a[2]>>)]

(***************************************************************************)
(* Text (services/rss_scraper.py).  A string is a sequence of tokens: a    *)
(* word, the blank " ", an HTML tag or an HTML entity.  "k in s" of the    *)
(* code is the occurrence of k's tokens as a contiguous run of s.          *)
(***************************************************************************)

Blank == " "
HtmlTags == {"<p>", "</p>", "<script>"}

\* str.lower(), token by token.
Lower(tok) ==
    CASE tok = "Opinion:"   -> "opinion:"
      [] tok = "Editorial"  -> "editorial"
      [] tok = "Opinion"    -> "opinion"
      [] tok = "Climate"    -> "climate"
      [] tok = "Why"        -> "why"
      [] tok = "Tariffs"    -> "tariffs"
      [] tok = "Fail"       -> "fail"
      [] tok = "Budget"     -> "budget"
      [] OTHER              -> tok

LowerText(text) == [i \in DOMAIN text |-> Lower(text[i])]

\* html.unescape(), token by token.
Unescape(tok) == IF tok = "&amp;" THEN "&" ELSE tok

\* k in s
Contains(s, k) ==
    \/ k = <<>>
    \/ \E i \in 1..(Len(s) - Len(k) + 1) : SubSeq(s, i, i + Len(k) - 1) = k

\* re.sub(r'\s+', ' ', text).strip(): runs of blanks collapse, the ends are bare.
RECURSIVE NormalizeWhitespace(_)
NormalizeWhitespace(text) ==
    IF text = <<>> THEN <<>>
    ELSE IF Head(text) = Blank
         THEN NormalizeWhitespace(Tail(text))
         ELSE LET rest == NormalizeWhitespace(Tail(text))
                  gap  == Len(text) > 1 /\ text[2] = Blank /\ rest # <<>>
              IN  <<Head(text)>> \o (IF gap THEN <<Blank>> ELSE <<>>) \o rest

\* RSSScraperService._clean_text
clean_text(text) ==
    IF text = <<>> THEN <<>>
    ELSE NormalizeWhitespace([i \in DOMAIN text |-> Unescape(text[i])])

\* RSSScraperService._clean_html_content: the tags go, the text is normalized.
clean_html_content(html_content) ==
    IF html_content = <<>> THEN <<>>
    ELSE NormalizeWhitespace(SelectSeq(html_content, LAMBDA tok : tok \notin HtmlTags))

\* len(content.split())
WordCount(text) == Len(SelectSeq(text, LAMBDA tok : tok # Blank))

(***************************************************************************)
(* Feed entries.  An entry is the feedparser dict of one item: a field the *)
(* item lacks is the empty sequence; malformed marks an item whose tags    *)
(* are not the list of dicts the extractor indexes, so that reading them   *)
(* raises.                                                                 *)
(***************************************************************************)

Entry(title, link, tags, content, summary, malformed) ==
    [ title |-> title, link |-> link, tags |-> tags, content |-> content,
      summary_detail |-> <<>>, summary |-> summary, description |-> <<>>,
      malformed |-> malformed ]

\* "Opinion: Why Tariffs Fail"
OpinionTitle == <<"Opinion:", Blank, "Why", Blank, "Tariffs", Blank, "Fail">>

EntryPool ==
    { Entry(OpinionTitle, <<"http:", "paper", "news", "1">>,
            <<>>, <<>>, <<"<p>", "trade", Blank, Blank, "war", "</p>">>, FALSE),
      Entry(<<"Editorial", Blank, "budget">>, <<"http:", "paper", "news", "5">>,
            <<>>, <<"budget">>, <<>>, FALSE),
      Entry(OpinionTitle, <<"http:", "paper", "news", "6">>,
            <<<<"Editorial">>>>, <<>>, <<"<p>", "trade", Blank, Blank, "war", "</p>">>, FALSE),
      Entry(<<Blank>>, <<"http:", "paper", "opinion", "2">>,
            <<>>, <<"budget">>, <<>>, FALSE),
      Entry(<<"budget">>, <<>>, <<<<"Editorial">>>>, <<>>, <<"budget">>, FALSE),
      Entry(<<"budget", Blank, "&amp;", Blank, "debt">>, <<"http:", "paper", "news", "4">>,
            <<<<"markets">>>>, <<>>, <<>>, TRUE) }

RECURSIVE SeqsUpTo(_, _)
SeqsUpTo(S, n) ==
    IF n = 0 THEN {<<>>}
    ELSE LET shorter == SeqsUpTo(S, n - 1)
         IN  shorter \cup {Append(q, x) : q \in shorter, x \in S}

\* What feedparser.parse returns: FeedParserDict with bozo and entries.
Feeds == [bozo : BOOLEAN, entries : SeqsUpTo(EntryPool, MaxEntries)]

\* RSSScraperService._extract_content
extract_content(entry) ==
    LET content ==
            IF entry.content # <<>> THEN entry.content
            ELSE IF entry.summary_detail # <<>> THEN entry.summary_detail
            ELSE IF entry.summary # <<>> THEN entry.summary
            ELSE entry.description
    IN  IF content # <<>> THEN clean_html_content(content) ELSE <<>>

\* The terms a tag is searched for (RSSScraperService._extract_category).
category_terms == {"opinion", "editorial", "comment"}

TagHits(entry) ==
    {i \in DOMAIN entry.tags :
        \E k \in category_terms : Contains(LowerText(entry.tags[i]), <<k>>)}

extract_category_tags_only(entry) ==
    LET hits == TagHits(entry)
        first == CHOOSE i \in hits : \A j \in hits : i <= j
    IN  IF hits # {} /\ Contains(LowerText(entry.tags[first]), <<"opinion">>)
        THEN "opinion" ELSE "editorial"

\* RSSScraperService._extract_category
extract_category(entry) ==
    LET hits == TagHits(entry)
        first == CHOOSE i \in hits : \A j \in hits : i <= j
        byTag == IF hits # {} /\ Contains(LowerText(entry.tags[first]), <<"opinion">>)
                 THEN "opinion" ELSE "editorial"
        title_lower == LowerText(entry.title)
    IN  IF Contains(title_lower, <<"opinion:">>) THEN "opinion" ELSE byTag

\* The bodies are hashed up to this many characters (one token is one character).
HashPrefix == 500

\* RSSScraperService._generate_content_hash: md5 of title + content[:500].  The
\* digest is the text it is taken of, so that two digests are equal exactly
\* when the hashed texts are.
generate_content_hash_whole_body(title, content) == title \o content

generate_content_hash(title, content) ==
    title \o SubSeq(content, 1, IF Len(content) < HashPrefix THEN Len(content) ELSE HashPrefix)

\* RSSScraperService._extract_article_data: None, or the article dict.
extract_article_data(entry, s) ==
    LET title == clean_text(entry.title)
    IN  IF title = <<>> THEN None
        ELSE IF entry.link = <<>> THEN None
        ELSE IF entry.malformed THEN None      \* except Exception: return None
        ELSE LET content == extract_content(entry)
             IN  Some([ title      |-> title,
                        url        |-> entry.link,
                        content    |-> content,
                        category   |-> extract_category(entry),
                        word_count |-> IF content # <<>> THEN WordCount(content) ELSE 0,
                        content_hash |-> generate_content_hash(title, content) ])

RECURSIVE extract_entries_abort(_, _)
extract_entries_abort(entries, s) ==
    IF entries = <<>> THEN <<>>
    ELSE IF extract_article_data(Head(entries), s) = None THEN <<>>
    ELSE extract_article_data(Head(entries), s) \o extract_entries_abort(Tail(entries), s)

\* RSSScraperService._extract_articles_from_feed
RECURSIVE extract_entries(_, _)
extract_entries(entries, s) ==
    IF entries = <<>> THEN <<>>
    ELSE extract_article_data(Head(entries), s) \o extract_entries(Tail(entries), s)

extract_articles_from_feed(feed, s) ==
    LET n == IF Len(feed.entries) < s.max_articles_per_fetch
             THEN Len(feed.entries) ELSE s.max_articles_per_fetch
    IN  extract_entries(SubSeq(feed.entries, 1, n), s)

\* The lists of RSSScraperService._is_editorial_content.
editorial_categories == {"editorial", "opinion", "comment"}

editorial_indicators ==
    { <<"editorial:">>, <<"opinion:">>, <<"comment:">>, <<"analysis:">>,
      <<"editorial", Blank, "-">>, <<"opinion", Blank, "-">>,
      <<"comment", Blank, "-">>, <<"our", Blank, "view:">>,
      <<"editor's", Blank, "note:">>, <<"editor's", Blank, "pick:">> }

editorial_keywords ==
    { <<"editorial">>, <<"opinion">>, <<"viewpoint">>, <<"perspective">>,
      <<"commentary">>, <<"analysis">>, <<"our", Blank, "view">>, <<"editor">> }

url_keywords == {"editorial", "opinion", "comment", "viewpoint"}

\* any(keyword.lower() in title or keyword.lower() in content for keyword in
\* keywords), title and content being lowered already.
keyword_match_case_sensitive(keywords, title, content) ==
    \E i \in DOMAIN keywords :
        \/ Contains(title, keywords[i])
        \/ Contains(content, keywords[i])

keyword_match(keywords, title, content) ==
    \E i \in DOMAIN keywords :
        \/ Contains(title, LowerText(keywords[i]))
        \/ Contains(content, LowerText(keywords[i]))

\* RSSScraperService._is_editorial_content
is_editorial_content(article, s) ==
    LET title    == LowerText(article.title)
        content  == LowerText(article.content)
        category == Lower(article.category)
        url      == LowerText(article.url)
        title_has_editorial_keyword == \E k \in editorial_keywords : Contains(title, k)
        url_has_editorial == \E k \in url_keywords : Contains(url, <<k>>)
    IN  IF category \in editorial_categories THEN TRUE
        ELSE IF \E k \in editorial_indicators : Contains(title, k) THEN TRUE
        ELSE IF s.keyword_filters # <<>>
                /\ ~keyword_match(s.keyword_filters, title, content) THEN FALSE
        ELSE IF s.exclude_keywords # <<>>
                /\ keyword_match(s.exclude_keywords, title, content) THEN FALSE
        ELSE title_has_editorial_keyword \/ url_has_editorial

\* RSSScraperService._filter_editorial_articles
RECURSIVE filter_editorial_articles(_, _)
filter_editorial_articles(articles, s) ==
    IF articles = <<>> THEN <<>>
    ELSE LET article == Head(articles)
             rest    == filter_editorial_articles(Tail(articles), s)
         IN  IF is_editorial_content(article, s)
             THEN <<[ title        |-> article.title,
                      url          |-> article.url,
                      content      |-> article.content,
                      category     |-> article.category,
                      word_count   |-> article.word_count,
                      content_hash |-> article.content_hash,
                      is_editorial |-> article.category = "editorial",
                      is_opinion   |-> article.category = "opinion" ]>> \o rest
             ELSE rest

(***************************************************************************)
(* Operations on the source.  Nothing under app/ calls the two update      *)
(* methods, so each is an operation of its own; RecordOutcome is the       *)
(* recordOutcome of the design: update_health_status, then                 *)
(* update_fetch_stats, with no other operation in between.                 *)
(***************************************************************************)

healthCalls == source.total_successful_fetches + source.total_failed_fetches

Tick ==
    \E d \in TickSteps :
        /\ now + d <= MaxNow
        /\ now' = now + d
        /\ lastOp' = "tick"
        /\ UNCHANGED <<source, failRun, prevFailRun, prevStatus, statsCalls, fetchedAt>>
        /\ UNCHANGED <<fetchVars, callVars, storeVars, sumVars, batchVars>>

UpdateHealthStatus ==
    \E is_success \in BOOLEAN, error_message \in ErrorMessages :
        /\ healthCalls < MaxFetches
        /\ source' = update_health_status(source, is_success, error_message, now)
        /\ lastOp' = IF is_success THEN "health_success" ELSE "health_failure"
        /\ prevStatus' = source.health_status
        /\ prevFailRun' = failRun
        /\ failRun' = IF is_success THEN 0 ELSE failRun + 1
        /\ UNCHANGED <<now, statsCalls, fetchedAt>>
        /\ UNCHANGED <<fetchVars, callVars, storeVars, sumVars, batchVars>>

UpdateFetchStats ==
    \E articles_count \in ArticleCounts, response_time \in ResponseTimes :
        /\ statsCalls < MaxStats
        /\ source' = update_fetch_stats(source, articles_count, response_time, now)
        /\ lastOp' = "stats"
        /\ statsCalls' = statsCalls + 1
        /\ fetchedAt' = Some(now)
        /\ UNCHANGED <<now, failRun, prevFailRun, prevStatus>>
        /\ UNCHANGED <<fetchVars, callVars, storeVars, sumVars, batchVars>>

RecordOutcome ==
    \E is_success \in BOOLEAN, error_message \in ErrorMessages,
       articles_count \in ArticleCounts, response_time \in ResponseTimes :
        /\ healthCalls < MaxFetches
        /\ statsCalls < MaxStats
        /\ source' = update_fetch_stats(
                         update_health_status(source, is_success, error_message, now),
                         articles_count, response_time, now)
        /\ lastOp' = IF is_success THEN "record_success" ELSE "record_failure"
        /\ prevStatus' = source.health_status
        /\ prevFailRun' = failRun
        /\ failRun' = IF is_success THEN 0 ELSE failRun + 1
        /\ statsCalls' = statsCalls + 1
        /\ fetchedAt' = Some(now)
        /\ UNCHANGED now
        /\ UNCHANGED <<fetchVars, callVars, storeVars, sumVars, batchVars>>

(***************************************************************************)
(* Source health and scheduling: properties under SpecHealth.              *)
(***************************************************************************)

\* C1: the health status is the function of the consecutive error count the
\* design gives: no failure since the last success (or ever) is healthy, two
\* to four failures are warning, five or more are error, and after exactly
\* one failure the status is the one held before that failure.  The count
\* the row keeps is the number of failures since the last success.
C1_StatusFollowsErrorCount ==
    /\ source.error_count = failRun
    /\ failRun = 0 => source.health_status = "healthy"
    /\ failRun = 1 => source.health_status = prevStatus
    /\ failRun \in 2..4 => source.health_status = "warning"
    /\ failRun >= 5 => source.health_status = "error"

C1_Witness ==
    /\ failRun = 3
    /\ source.health_status = "warning"
    /\ source.total_successful_fetches >= 1
    /\ source.total_failed_fetches >= 4

\* C2: five failures in a row leave the status error, whatever came before,
\* and a success right after any run of failures leaves the error count 0
\* and the status healthy.
C2_FiveFailuresThenSuccess ==
    /\ (lastOp \in {"health_failure", "record_failure"} /\ failRun >= 5)
           => source.health_status = "error"
    /\ lastOp \in {"health_success", "record_success"}
           => source.error_count = 0 /\ source.health_status = "healthy"

C2_Witness ==
    /\ lastOp = "health_success"
    /\ prevFailRun = 5
    /\ prevStatus = "error"

\* Seconds since the last update_fetch_stats, by the history of calls.
ElapsedSinceFetch == now - fetchedAt[1]
IntervalSeconds   == source.fetch_interval_minutes * 60

\* C3: needs_fetch is true exactly when the source is active and either no
\* fetch was ever recorded or the interval has passed since the last one;
\* an inactive source is never due.
C3_NeedsFetchIffActiveAndDue ==
    needs_fetch(source, now) <=>
        /\ source.is_active
        /\ \/ statsCalls = 0
           \/ ElapsedSinceFetch >= IntervalSeconds

C3_Witness ==
    /\ source.is_active
    /\ statsCalls > 0
    /\ IntervalSeconds > 0
    /\ ElapsedSinceFetch = IntervalSeconds
    /\ needs_fetch(source, now)

\* C4 as stated: right after a successful recordOutcome the source is not
\* due, and a fetched source is due only once the interval has passed.
C4_NotDueRightAfterSuccess ==
    /\ lastOp = "record_success" => ~needs_fetch(source, now)
    /\ (statsCalls > 0 /\ needs_fetch(source, now))
           => ElapsedSinceFetch >= IntervalSeconds

\* C4, amended: the same for a source whose fetch interval is positive; with
\* an interval of 0 an active source is due again at once.
C4_NotDueRightAfterSuccessPositiveInterval ==
    /\ (lastOp = "record_success" /\ source.fetch_interval_minutes > 0)
           => ~needs_fetch(source, now)
    /\ (statsCalls > 0 /\ needs_fetch(source, now))
           => ElapsedSinceFetch >= IntervalSeconds

C4_Witness ==
    /\ lastOp = "record_success"
    /\ source.is_active
    /\ source.fetch_interval_minutes > 0
    /\ statsCalls = 2
    /\ now > 0
    /\ ~needs_fetch(source, now)

(***************************************************************************)
(* RSSScraperService.fetch_feed.  The call is followed from one suspension *)
(* point to the next: the sleeps and the request.                          *)
(***************************************************************************)

DEFAULT_MAX_RETRIES == 3

\* How session.get + raise_for_status + feedparser.parse can end.
RequestExceptions == {"timeout", "connection_error", "http_4xx", "http_5xx"}
OtherExceptions   == {"parse_exception"}
Outcomes          == {"ok"} \cup RequestExceptions \cup OtherExceptions

SleepEvent(why, secs) == [ev |-> "sleep", why |-> why, secs |-> secs, attempt |-> 0]
GetEvent(n)           == [ev |-> "get", why |-> "request", secs |-> 0, attempt |-> n]

\* f"Request failed (attempt {attempt + 1}): {str(e)}" and its sibling.
AttemptError(outcome, n) ==
    [ text    |-> IF outcome \in RequestExceptions
                  THEN "Request failed" ELSE "Unexpected error",
      attempt |-> n + 1,
      cause   |-> outcome ]
PlainError(text) == [text |-> text, attempt |-> 0, cause |-> "none"]

\* The tuple (success, articles_data, error_message).
Returned(success, articles, error) ==
    Some([success |-> success, articles |-> articles, error |-> error])

\* Backoff growing linearly, 2 * attempt, instead of doubling.
Backoff_linear(n, max_retries) ==
    IF n < max_retries - 1 THEN <<SleepEvent("backoff", 2 * n)>> ELSE <<>>

\* time.sleep(2 ** attempt) after a failed attempt, unless it was the last one.
Backoff(n, max_retries) ==
    IF n < max_retries - 1 THEN <<SleepEvent("backoff", 2 ^ n)>> ELSE <<>>

\* Which failures the retry loop catches and goes round again for:
\* "except requests.exceptions.RequestException" and "except Exception".
Retried(outcome) == outcome \in RequestExceptions \cup OtherExceptions

\* The loop running over range(MAX_RETRIES + 1).
LoopContinues_one_more(n, max_retries) == n <= max_retries

\* "for attempt in range(settings.MAX_RETRIES)": is there a round n?
LoopContinues(n, max_retries) == n < max_retries

\* The test taking a feed without entries for no feed at all.
FeedMissing_or_empty(fd) == fd = None \/ fd[1].entries = <<>>

\* "if not feed_data"
FeedMissing(fd) == fd = None

\* The failure return dropping the recorded cause.
FailureMessage_generic(err) == Some(PlainError("Failed to fetch feed"))

\* "last_error or 'Failed to fetch feed'"
FailureMessage(err) ==
    IF err # None THEN err ELSE Some(PlainError("Failed to fetch feed"))

\* Lines 45-58: the URL check, the courtesy delay, the loop's set-up.
FetchStart ==
    /\ pc = "idle"
    /\ IF source.fetch_url = ""
       THEN /\ result' = Returned(FALSE, <<>>, Some(PlainError("No feed URL configured")))
            /\ pc' = "done"
            /\ UNCHANGED <<log, attempt, feed_data, last_error>>
       ELSE IF source.request_delay < 0
       THEN \* time.sleep raises ValueError: the outer handler returns
            /\ result' = Returned(FALSE, <<>>, Some(PlainError("RSS scraping failed")))
            /\ pc' = "done"
            /\ UNCHANGED <<log, attempt, feed_data, last_error>>
       ELSE /\ log' = IF source.request_delay # 0
                      THEN Append(log, SleepEvent("delay", source.request_delay))
                      ELSE log
            /\ feed_data' = None
            /\ last_error' = None
            /\ attempt' = 0
            /\ pc' = IF LoopContinues(0, MAX_RETRIES) THEN "request" ELSE "after_loop"
            /\ UNCHANGED result
    /\ UNCHANGED <<MAX_RETRIES, lastOutcome>>
    /\ UNCHANGED <<sourceVars, callVars, storeVars, sumVars, batchVars>>

\* Lines 60-72: one round of the loop whose request and parse succeed.
FetchAttemptOk ==
    /\ pc = "request"
    /\ \E feed \in Feeds : feed_data' = Some(feed)
    /\ log' = Append(log, GetEvent(attempt))
    /\ lastOutcome' = Some("ok")
    /\ pc' = "after_loop"
    /\ UNCHANGED <<MAX_RETRIES, attempt, last_error, result>>
    /\ UNCHANGED <<sourceVars, callVars, storeVars, sumVars, batchVars>>

\* Lines 60-64, 74-86: one round of the loop whose request or parse raises.
FetchAttemptFail ==
    /\ pc = "request"
    /\ \E outcome \in Outcomes \ {"ok"} :
        /\ lastOutcome' = Some(outcome)
        /\ IF Retried(outcome)
           THEN /\ last_error' = Some(AttemptError(outcome, attempt))
                /\ log' = Append(log, GetEvent(attempt)) \o Backoff(attempt, MAX_RETRIES)
                /\ attempt' = attempt + 1
                /\ pc' = IF LoopContinues(attempt + 1, MAX_RETRIES)
                         THEN "request" ELSE "after_loop"
                /\ UNCHANGED result
           ELSE \* not caught in the loop: the outer handler returns
                /\ result' = Returned(FALSE, <<>>, Some(PlainError("RSS scraping failed")))
                /\ log' = Append(log, GetEvent(attempt))
                /\ pc' = "done"
                /\ UNCHANGED <<attempt, last_error>>
    /\ UNCHANGED <<MAX_RETRIES, feed_data>>
    /\ UNCHANGED <<sourceVars, callVars, storeVars, sumVars, batchVars>>

\* Lines 88-98: the outcome of the loop, extraction and filtering, the return.
FetchFinish ==
    /\ pc = "after_loop"
    /\ IF FeedMissing(feed_data)
       THEN result' = Returned(FALSE, <<>>, FailureMessage(last_error))
       ELSE LET articles_data     == extract_articles_from_feed(feed_data[1], source)
                filtered_articles == filter_editorial_articles(articles_data, source)
            IN  result' = Returned(TRUE, filtered_articles, None)
    /\ pc' = "done"
    /\ UNCHANGED <<MAX_RETRIES, attempt, feed_data, last_error, log, lastOutcome>>
    /\ UNCHANGED <<sourceVars, callVars, storeVars, sumVars, batchVars>>

FetchIdle ==
    /\ pc = "idle"
    /\ attempt = 0
    /\ feed_data = None
    /\ last_error = None
    /\ log = <<>>
    /\ lastOutcome = None
    /\ result = None

CallIdle ==
    /\ call = None
    /\ ret = None

StoreIdle ==
    /\ store = <<>>
    /\ reports = <<>>

SumIdle ==
    /\ sum_article = None
    /\ model_name = None
    /\ sum_pc = "idle"
    /\ local_models = {}
    /\ openai_client = FALSE
    /\ backend_log = <<>>
    /\ sum_result = None
    /\ article_before = None

BatchIdle ==
    /\ batch_articles = <<>>
    /\ batch_size = None
    /\ batch_pc = "idle"
    /\ batch_lo = 1
    /\ task = <<>>
    /\ task_outcome = <<>>
    /\ results = <<>>
    /\ batch_raised = FALSE

SourceIdle ==
    /\ now = 0
    /\ lastOp = "none"
    /\ failRun = 0
    /\ prevFailRun = 0
    /\ prevStatus = "healthy"
    /\ statsCalls = 0
    /\ fetchedAt = None

RequestDelays        == {-1, 0, 1, 2}   \* request_delay values explored (seconds)
MaxArticlesPerFetch  == {1, 2}          \* max_articles_per_fetch values explored
KeywordLists         == {<<>>, <<<<"climate">>>>}

InitFetch ==
    /\ SourceIdle
    /\ \E delay \in RequestDelays, maxArticles \in MaxArticlesPerFetch,
          hasUrl \in BOOLEAN, keywords \in KeywordLists :
           source = NewSource(TRUE, 2, delay, maxArticles, hasUrl, keywords, <<>>)
    /\ MAX_RETRIES \in 0..MaxRetriesCfg
    /\ FetchIdle
    /\ CallIdle
    /\ StoreIdle
    /\ SumIdle
    /\ BatchIdle

NextFetch ==
    \/ FetchStart
    \/ FetchAttemptOk
    \/ FetchAttemptFail
    \/ FetchFinish

SpecFetch == InitFetch /\ [][NextFetch]_vars

(***************************************************************************)
(* fetch_feed: properties under SpecFetch.                                 *)
(***************************************************************************)

Gets     == SelectSeq(log, LAMBDA e : e.ev = "get")
Backoffs == SelectSeq(log, LAMBDA e : e.ev = "sleep" /\ e.why = "backoff")
NumGets  == Len(Gets)

TransientFailures == {"timeout", "connection_error", "http_5xx"}

\* C5: a request is made again only after a timeout, a connection error or
\* an HTTP 5xx; after an HTTP 4xx or a failure that is not a transport
\* failure the call makes no further request.
C5_RetryOnlyTransient ==
    (pc = "request" /\ lastOutcome # None) => lastOutcome[1] \in TransientFailures

\* C6: a call makes at most MAX_RETRIES requests, numbered in order, so it
\* retries at most MAX_RETRIES times, and once a request has succeeded no
\* further request is pending.
C6_RequestsBoundedByRetryLimit ==
    /\ NumGets <= MAX_RETRIES
    /\ \A i \in DOMAIN Gets : Gets[i].attempt = i - 1
    /\ pc = "request" => attempt < MAX_RETRIES
    /\ lastOutcome = Some("ok") => pc \in {"after_loop", "done"}

C6_Witness ==
    /\ pc = "done"
    /\ MAX_RETRIES = DEFAULT_MAX_RETRIES
    /\ NumGets = MAX_RETRIES
    /\ lastOutcome = Some("timeout")

\* C7: the waits between consecutive requests of a call are 1, 2, 4, ...
\* seconds, the k-th being 2^(k-1), one between each two requests and none
\* after the last; a call whose third request is the first to succeed
\* returns success after exactly the two waits 1 and 2.
C7_BackoffDoubles ==
    /\ \A k \in DOMAIN Backoffs : Backoffs[k].secs = 2 ^ (k - 1)
    /\ pc = "request" => Len(Backoffs) = NumGets
    /\ (pc # "request" /\ NumGets > 0) => Len(Backoffs) = NumGets - 1
    /\ (pc = "done" /\ NumGets = 3 /\ lastOutcome = Some("ok"))
           => /\ result[1].success
              /\ [k \in DOMAIN Backoffs |-> Backoffs[k].secs] = <<1, 2>>

C7_Witness ==
    /\ pc = "done"
    /\ NumGets = 3
    /\ lastOutcome = Some("ok")
    /\ result[1].success

\* C8: the source's request delay is slept before every request of a call,
\* the retries included: each request in the log is preceded, since the
\* request before it, by a sleep of the source's delay.
C8_DelayBeforeEveryAttempt ==
    source.request_delay > 0 =>
        \A i \in DOMAIN log :
            log[i].ev = "get" =>
                \E j \in 1..(i - 1) :
                    /\ log[j] = SleepEvent("delay", source.request_delay)
                    /\ \A m \in (j + 1)..(i - 1) : log[m].ev # "get"

\* C9: a call all of whose requests fail ends by returning a failure, with
\* no articles, whose error is that of the last request: its cause and its
\* attempt number.  Every call that ends has returned a tuple.
C9_FailureCarriesLastCause ==
    /\ pc = "done" => result # None
    /\ (pc = "done" /\ NumGets > 0 /\ lastOutcome # Some("ok"))
           => /\ ~result[1].success
              /\ result[1].articles = <<>>
              /\ result[1].error # None
              /\ result[1].error[1].cause = lastOutcome[1]
              /\ result[1].error[1].attempt = NumGets

C9_Witness ==
    /\ pc = "done"
    /\ MAX_RETRIES = DEFAULT_MAX_RETRIES
    /\ NumGets = MAX_RETRIES
    /\ lastOutcome = Some("http_5xx")
    /\ ~result[1].success

\* An entry the extractor can make an article of: a title that is more than
\* blanks, a link, and tags it can read.
UsableEntry(e) ==
    /\ \E i \in DOMAIN e.title : e.title[i] # Blank
    /\ e.link # <<>>
    /\ ~e.malformed

NoUsableEntry(feed) ==
    \A i \in DOMAIN feed.entries :
        i <= source.max_articles_per_fetch => ~UsableEntry(feed.entries[i])

\* C10: a call whose request succeeded and whose feed yields no article
\* returns success with an empty list and no error, and the successful
\* request is the last event of the call: the empty result is not retried.
C10_EmptyFeedIsSuccess ==
    /\ (pc = "done" /\ feed_data # None /\ NoUsableEntry(feed_data[1]))
           => result = Returned(TRUE, <<>>, None)
    /\ (pc \in {"after_loop", "done"} /\ feed_data # None)
           => log[Len(log)] = GetEvent(attempt)

C10_Witness ==
    /\ pc = "done"
    /\ feed_data # None
    /\ Len(feed_data[1].entries) = 2
    /\ NoUsableEntry(feed_data[1])
    /\ result = Returned(TRUE, <<>>, None)

(***************************************************************************)
(* Extraction and classification inside fetch_feed: properties under       *)
(* SpecFetch.                                                              *)
(***************************************************************************)

\* feed_data.entries[:source.max_articles_per_fetch] of the feed that was read.
ReadEntries ==
    LET entries == feed_data[1].entries
        n == IF Len(entries) < source.max_articles_per_fetch
             THEN Len(entries) ELSE source.max_articles_per_fetch
    IN  SubSeq(entries, 1, n)

Extracted == extract_articles_from_feed(feed_data[1], source)

\* C11: the extractor returns, in feed order, one candidate for each of the
\* first max_articles_per_fetch entries that has a title that is not empty
\* once cleaned, a link, and an extraction that does not fail; the other
\* entries are skipped, so there are at most max_articles_per_fetch candidates.
C11_OneCandidatePerUsableEntry ==
    feed_data # None =>
        LET usable == SelectSeq(ReadEntries, UsableEntry)
        IN  /\ Len(Extracted) <= source.max_articles_per_fetch
            /\ Len(Extracted) = Len(usable)
            /\ \A i \in DOMAIN usable :
                   /\ Extracted[i].url = usable[i].link
                   /\ Extracted[i].title = clean_text(usable[i].title)

C11_Witness ==
    /\ pc = "done"
    /\ feed_data # None
    /\ Len(ReadEntries) = 2
    /\ ReadEntries[1].malformed
    /\ UsableEntry(ReadEntries[2])
    /\ Len(Extracted) = 1
    /\ Len(result[1].articles) = 1
    /\ result[1].articles[1].url = ReadEntries[2].link

\* The articles fetch_feed returned for a feed entry.
Returned_for(e) == {i \in DOMAIN result[1].articles : result[1].articles[i].url = e.link}

FetchSucceeded == pc = "done" /\ feed_data # None /\ result # None /\ result[1].success

HasLabel(title) == \E k \in editorial_indicators : Contains(LowerText(title), k)

\* C12: for a source whose keyword_filters is ["climate"], fetch_feed returns
\* no article for an entry without tags and without a labelled title whose
\* title and body do not mention "climate".
C12_IncludeFilterRejects ==
    (FetchSucceeded /\ source.keyword_filters = <<<<"climate">>>>) =>
        \A k \in DOMAIN ReadEntries :
            LET e == ReadEntries[k]
            IN  (/\ e.tags = <<>>
                 /\ ~HasLabel(e.title)
                 /\ ~Contains(LowerText(e.title), <<"climate">>)
                 /\ ~Contains(LowerText(extract_content(e)), <<"climate">>))
                    => Returned_for(e) = {}

\* C14: an entry without tags whose title carries the "opinion:" marker is
\* returned by fetch_feed, with is_editorial false and is_opinion true.
C14_OpinionMarkerAccepted ==
    FetchSucceeded =>
        \A k \in DOMAIN ReadEntries :
            LET e == ReadEntries[k]
            IN  (UsableEntry(e) /\ e.tags = <<>>
                   /\ Contains(LowerText(e.title), <<"opinion:">>))
                    => /\ Returned_for(e) # {}
                       /\ \A i \in Returned_for(e) :
                              /\ ~result[1].articles[i].is_editorial
                              /\ result[1].articles[i].is_opinion

C14_Witness ==
    /\ FetchSucceeded
    /\ \E k \in DOMAIN ReadEntries :
           /\ ReadEntries[k].tags = <<>>
           /\ ReadEntries[k].title = OpinionTitle
           /\ \E i \in Returned_for(ReadEntries[k]) :
                  /\ result[1].articles[i].title = OpinionTitle
                  /\ result[1].articles[i].is_opinion
                  /\ ~result[1].articles[i].is_editorial

\* C15: an entry with a tag that names opinion, editorial or comment is
\* returned flagged opinion exactly when the first such tag contains
\* "opinion", and editorial otherwise, whatever its title.
C15_TagDecidesFlags ==
    FetchSucceeded =>
        \A k \in DOMAIN ReadEntries :
            LET e == ReadEntries[k]
                first == CHOOSE i \in TagHits(e) : \A j \in TagHits(e) : i <= j
                byTag == Contains(LowerText(e.tags[first]), <<"opinion">>)
            IN  (UsableEntry(e) /\ TagHits(e) # {})
                    => /\ Returned_for(e) # {}
                       /\ \A i \in Returned_for(e) :
                              /\ result[1].articles[i].is_opinion = byTag
                              /\ result[1].articles[i].is_editorial = ~byTag

(***************************************************************************)
(* _is_editorial_content as a function: every article dict of the pool     *)
(* against every source configuration of the pool.                         *)
(***************************************************************************)

CandidateTitles ==
    { <<"budget">>, <<"Editorial", Blank, "budget">>,
      <<"Climate", Blank, "Editorial">>, <<"analysis:", Blank, "budget">> }
CandidateContents == { <<>>, <<"Climate", Blank, "tax">>, <<"budget">> }
CandidateUrls ==
    { <<"http:", "paper", "news", "1">>, <<"http:", "paper", "opinion", "2">> }
CandidateCategories == {"news", "editorial"}
IncludeLists == {<<>>, <<<<"climate">>>>, <<<<"Climate">>>>}
ExcludeLists == {<<>>, <<<<"tax">>>>, <<<<"Budget">>>>}

InitClassify ==
    /\ SourceIdle
    /\ \E keywords \in IncludeLists, excludes \in ExcludeLists :
           source = NewSource(TRUE, 2, 1, 2, TRUE, keywords, excludes)
    /\ MAX_RETRIES = DEFAULT_MAX_RETRIES
    /\ FetchIdle
    /\ \E title \in CandidateTitles, content \in CandidateContents,
          url \in CandidateUrls, category \in CandidateCategories :
           call = Some([title |-> title, content |-> content, url |-> url,
                        category |-> category])
    /\ ret = None
    /\ StoreIdle
    /\ SumIdle
    /\ BatchIdle

Call_is_editorial_content ==
    /\ ret = None
    /\ ret' = Some(is_editorial_content(call[1], source))
    /\ UNCHANGED <<call, sourceVars, fetchVars, storeVars, sumVars, batchVars>>

NextClassify == Call_is_editorial_content

SpecClassify == InitClassify /\ [][NextClassify]_vars

\* k occurs in text, letter case apart.
OccursIn(k, text) == Contains(LowerText(text), LowerText(k))

MentionsAny(keywords, candidate) ==
    \E i \in DOMAIN keywords :
        OccursIn(keywords[i], candidate.title) \/ OccursIn(keywords[i], candidate.content)

GenericallyEditorial(candidate) ==
    \/ \E k \in editorial_keywords : OccursIn(k, candidate.title)
    \/ \E k \in url_keywords : OccursIn(<<k>>, candidate.url)

\* C13: for a candidate that neither the category check nor the labelled
\* title accepts, the answer is: rejected when the source has include keywords
\* and none occurs in title or body; otherwise rejected when an exclude
\* keyword occurs; otherwise accepted exactly when the title or the URL has a
\* generic editorial keyword.
C13_SourceFiltersOverrideHeuristics ==
    (/\ ret # None
     /\ call[1].category \notin editorial_categories
     /\ ~HasLabel(call[1].title))
        => ret[1] =
             (IF source.keyword_filters # <<>>
                 /\ ~MentionsAny(source.keyword_filters, call[1]) THEN FALSE
              ELSE IF MentionsAny(source.exclude_keywords, call[1]) THEN FALSE
              ELSE GenericallyEditorial(call[1]))

C13_Witness ==
    /\ ret = Some(FALSE)
    /\ call[1].category = "news"
    /\ call[1].title = <<"Climate", Blank, "Editorial">>
    /\ source.keyword_filters = <<<<"Climate">>>>
    /\ source.exclude_keywords = <<<<"tax">>>>
    /\ call[1].content = <<"Climate", Blank, "tax">>

(***************************************************************************)
(* _generate_content_hash as a function: one title and two bodies, hashed  *)
(* one after the other.  A body is a run of "a" with at most one "b".      *)
(***************************************************************************)

Body(len, mark) == [i \in 1..len |-> IF i = mark THEN "b" ELSE "a"]

BodyLengths == {0} \cup ((HashPrefix - 1)..(HashPrefix + MaxTail))

Bodies ==
    {Body(len, mark) : len \in BodyLengths,
                       mark \in {0, 1} \cup ((HashPrefix - 1)..(HashPrefix + MaxTail))}

InitHash ==
    /\ SourceIdle
    /\ source = NewSource(TRUE, 2, 1, 2, TRUE, <<>>, <<>>)
    /\ MAX_RETRIES = DEFAULT_MAX_RETRIES
    /\ FetchIdle
    /\ \E title \in {OpinionTitle, <<"budget">>}, body1 \in Bodies, body2 \in Bodies :
           call = Some([title |-> title, body1 |-> body1, body2 |-> body2])
    /\ ret = None
    /\ StoreIdle
    /\ SumIdle
    /\ BatchIdle

Call_generate_content_hash ==
    /\ ret = None
    /\ ret' = Some(<<generate_content_hash(call[1].title, call[1].body1),
                      generate_content_hash(call[1].title, call[1].body2)>>)
    /\ UNCHANGED <<call, sourceVars, fetchVars, storeVars, sumVars, batchVars>>

NextHash == Call_generate_content_hash

SpecHash == InitHash /\ [][NextHash]_vars

\* body[:500]
FirstChars(body) == [i \in {j \in DOMAIN body : j <= 500} |-> body[i]]

\* C16: two calls with the same title and bodies that agree on their first
\* 500 characters return the same digest, whatever follows character 500.
C16_HashOfTitleAndPrefix ==
    (ret # None /\ FirstChars(call[1].body1) = FirstChars(call[1].body2))
        => ret[1][1] = ret[1][2]

C16_Witness ==
    /\ ret # None
    /\ Len(call[1].body1) = 501
    /\ Len(call[1].body2) = 502
    /\ call[1].body1[501] # call[1].body2[501]
    /\ FirstChars(call[1].body1) = FirstChars(call[1].body2)
    /\ ret[1][1] = ret[1][2]

(***************************************************************************)
(* The articles table and the upsert of the ingestion path.  The code      *)
(* under app/ builds the candidates and declares the Article row and its   *)
(* mark_as_duplicate; the upsert itself is the one of the design: look the *)
(* fingerprint up among the rows that are not duplicates, and either       *)
(* insert the candidate or store it marked as a duplicate of the row found.*)
(***************************************************************************)

\* Article(**article_data): the columns the candidates fill, with the
\* defaults of is_duplicate and duplicate_of.
NewArticle(id, candidate) ==
    [ id           |-> id,
      title        |-> candidate.title,
      url          |-> candidate.url,
      content      |-> candidate.content,
      category     |-> candidate.category,
      is_editorial |-> candidate.is_editorial,
      is_opinion   |-> candidate.is_opinion,
      is_duplicate |-> FALSE,
      duplicate_of |-> None ]

mark_as_duplicate_unflagged(row, original_article_id) ==
    [row EXCEPT !.duplicate_of = Some(original_article_id)]

\* Article.mark_as_duplicate
mark_as_duplicate(row, original_article_id) ==
    [row EXCEPT !.is_duplicate = TRUE, !.duplicate_of = Some(original_article_id)]

\* findByFingerprint: the rows that are not duplicates and hash to fp.
findByFingerprint(rows, fp) ==
    {i \in DOMAIN rows :
        /\ ~rows[i].is_duplicate
        /\ generate_content_hash(rows[i].title, rows[i].content) = fp}

\* upsert(candidate): the row to store and the report.
upsert(rows, candidate) ==
    LET id    == Len(rows) + 1
        found == findByFingerprint(rows, candidate.content_hash)
        first == CHOOSE i \in found : \A j \in found : i <= j
    IN  IF found = {}
        THEN [row |-> NewArticle(id, candidate), outcome |-> "inserted",
              original |-> None]
        ELSE [row |-> mark_as_duplicate(NewArticle(id, candidate), rows[first].id),
              outcome |-> "duplicate", original |-> Some(rows[first].id)]

\* One feed entry through the ingestion path: extract, classify, upsert.
Upsert ==
    /\ Len(store) < MaxStore
    /\ \E e \in EntryPool :
           LET candidates ==
                   filter_editorial_articles(extract_entries(<<e>>, source), source)
           IN  /\ candidates # <<>>
               /\ LET report == upsert(store, candidates[1])
                  IN  /\ store' = Append(store, report.row)
                      /\ reports' = Append(reports, report)
    /\ UNCHANGED <<sourceVars, fetchVars, callVars, sumVars, batchVars>>

InitStore ==
    /\ SourceIdle
    /\ source = NewSource(TRUE, 2, 1, 2, TRUE, <<>>, <<>>)
    /\ MAX_RETRIES = DEFAULT_MAX_RETRIES
    /\ FetchIdle
    /\ CallIdle
    /\ StoreIdle
    /\ SumIdle
    /\ BatchIdle

NextStore == Upsert

SpecStore == InitStore /\ [][NextStore]_vars

SameTitleAndBody(a, b) == a.title = b.title /\ a.content = b.content

\* The first stored occurrence of the title and body of row j.
OriginalOf(j) ==
    CHOOSE i \in 1..j : /\ SameTitleAndBody(store[i], store[j])
                        /\ \A k \in 1..j : SameTitleAndBody(store[k], store[j]) => i <= k

RECURSIVE LStrip(_)
LStrip(text) ==
    IF text # <<>> /\ Head(text) = Blank THEN LStrip(Tail(text)) ELSE text

RECURSIVE RStrip(_)
RStrip(text) ==
    IF text # <<>> /\ text[Len(text)] = Blank
    THEN RStrip(SubSeq(text, 1, Len(text) - 1)) ELSE text

Strip(text) == RStrip(LStrip(text))

\* str.startswith
StartsWith(text, prefix) ==
    Len(prefix) <= Len(text) /\ SubSeq(text, 1, Len(prefix)) = prefix

\* re.sub(r'\s+', ' ', text)
RECURSIVE CollapseWhitespace(_)
CollapseWhitespace(text) ==
    IF text = <<>> THEN <<>>
    ELSE IF Head(text) = Blank /\ Len(text) > 1 /\ text[2] = Blank
         THEN CollapseWhitespace(Tail(text))
         ELSE <<Head(text)>> \o CollapseWhitespace(Tail(text))

\* The artifacts of _post_process_summary, in the order of the list.
artifacts == << <<"Summary:">>, <<"In summary,">>, <<"To summarize,">>,
               <<"In conclusion,">> >>

TerminalPunctuation == {".", "!", "?"}

\* The loop over the artifacts: each one is tried once, in order.
RECURSIVE remove_artifacts(_, _)
remove_artifacts(summary, i) ==
    IF i > Len(artifacts) THEN summary
    ELSE IF StartsWith(summary, artifacts[i])
         THEN remove_artifacts(
                  Strip(SubSeq(summary, Len(artifacts[i]) + 1, Len(summary))), i + 1)
         ELSE remove_artifacts(summary, i + 1)

\* SummarizationService._post_process_summary
post_process_summary(summary) ==
    IF summary = <<>> THEN <<>>
    ELSE LET bare  == remove_artifacts(Strip(summary), 1)
             ended == IF bare # <<>> /\ bare[Len(bare)] \notin TerminalPunctuation
                      THEN Append(bare, ".") ELSE bare
         IN  CollapseWhitespace(ended)

SummaryTokens ==
    {"Summary:", "In summary,", "To summarize,", "In conclusion,", Blank, "taxes", "."}

InitPostProcess ==
    /\ SourceIdle
    /\ source = NewSource(TRUE, 2, 1, 2, TRUE, <<>>, <<>>)
    /\ MAX_RETRIES = DEFAULT_MAX_RETRIES
    /\ FetchIdle
    /\ call \in {Some(summary) : summary \in SeqsUpTo(SummaryTokens, MaxSummaryLen)}
    /\ ret = None
    /\ StoreIdle
    /\ SumIdle
    /\ BatchIdle

Call_post_process_summary ==
    /\ ret = None
    /\ ret' = Some(post_process_summary(call[1]))
    /\ UNCHANGED <<call, sourceVars, fetchVars, storeVars, sumVars, batchVars>>

NextPostProcess == Call_post_process_summary

SpecPostProcess == InitPostProcess /\ [][NextPostProcess]_vars

\* C19: the text _post_process_summary returns does not begin with
\* "Summary:", "In summary,", "To summarize," or "In conclusion,".
C19_NoLeadingBoilerplate ==
    ret # None =>
        \A phrase \in {<<"Summary:">>, <<"In summary,">>, <<"To summarize,">>,
                        <<"In conclusion,">>} :
            ~StartsWith(ret[1], phrase)

(***************************************************************************)
(* summarize_article.  The content of an article is a sequence of          *)
(* characters, "x" or the blank.  The call runs to the backend it chose,   *)
(* waits there for the reply, and finishes with the reply.                 *)
(***************************************************************************)

\* SummarizationService.model_configs: the type of each model key.
model_configs ==
    [ k \in {"bart-large-cnn", "pegasus-xsum", "t5-small", "gpt-3.5-turbo", "gpt-4"} |->
        IF k \in {"gpt-3.5-turbo", "gpt-4"} THEN "openai" ELSE "huggingface" ]

\* settings.DEFAULT_SUMMARY_MODEL.split('/')[-1]
DefaultModel == "bart-large-cnn"

MinContentLength == 100

\* lead blanks, then n times "x", then trail blanks.
Content(lead, n, trail) ==
    [i \in 1..(lead + n + trail) |-> IF i > lead /\ i <= lead + n THEN "x" ELSE Blank]

Contents ==
    { Content(0, 0, 0), Content(2, 0, 0), Content(0, 99, 0), Content(1, 99, 1),
      Content(0, 100, 0), Content(1, 100, 0) }

RequestedModels == {None, Some("t5-small"), Some("gpt-4"), Some("llama")}

BackendSummaries ==
    { <<Blank>>, <<"Summary:">>, <<"Summary:", Blank, "taxes">>,
      <<"taxes", Blank, "rise", ".">> }

\* not content or len(content.strip()) < 100, without the strip.
ContentTooShort_unstripped(content) ==
    content = <<>> \/ Len(content) < MinContentLength

\* not content or len(content.strip()) < 100
ContentTooShort(content) ==
    content = <<>> \/ Len(Strip(content)) < MinContentLength

Failure(error) == Some([success |-> FALSE, summary |-> None, error |-> error])
Success(summary) == Some([success |-> TRUE, summary |-> Some(summary), error |-> None])

LoadEvent(model)   == [ev |-> "load", model |-> model]
OpenAIEvent(model) == [ev |-> "openai", model |-> model]
PipelineEvent(model) == [ev |-> "pipeline", model |-> model]

\* summarize_article up to the backend: the default model, the content check,
\* the lookup of the model, the dispatch on its type.
SummarizeStart ==
    /\ sum_pc = "idle"
    /\ \E requested \in RequestedModels :
        LET name == IF requested = None THEN DefaultModel ELSE requested[1]
        IN  /\ model_name' = Some(name)
            /\ IF ContentTooShort(sum_article.content)
               THEN /\ sum_result' = Failure(Some("Article content too short for summarization"))
                    /\ sum_pc' = "done"
               ELSE IF name \notin DOMAIN model_configs
               THEN /\ sum_result' = Failure(Some("Unknown model"))
                    /\ sum_pc' = "done"
               ELSE IF model_configs[name] = "openai"
               THEN IF ~openai_client
                    THEN /\ sum_result' = Failure(Some("OpenAI client not available"))
                         /\ sum_pc' = "done"
                    ELSE /\ sum_result' = sum_result
                         /\ sum_pc' = "openai"
               ELSE /\ sum_result' = sum_result
                    /\ sum_pc' = IF name \in local_models THEN "pipeline" ELSE "load"
    /\ article_before' = sum_article
    /\ UNCHANGED <<sum_article, local_models, openai_client, backend_log>>
    /\ UNCHANGED <<sourceVars, fetchVars, callVars, storeVars, batchVars>>

\* _load_huggingface_model inside _summarize_with_huggingface: the model is
\* loaded, or the load fails and the call ends.
LoadModel ==
    /\ sum_pc = "load"
    /\ backend_log' = Append(backend_log, LoadEvent(model_name[1]))
    /\ \E loaded \in BOOLEAN :
           IF loaded
           THEN /\ local_models' = local_models \cup {model_name[1]}
                /\ sum_pc' = "pipeline"
                /\ sum_result' = sum_result
           ELSE /\ local_models' = local_models
                /\ sum_pc' = "done"
                /\ sum_result' = Failure(Some("Failed to load model"))
    /\ UNCHANGED <<sum_article, model_name, openai_client, article_before>>
    /\ UNCHANGED <<sourceVars, fetchVars, callVars, storeVars, batchVars>>

Finish_marks_attempt(backend) ==
    IF backend.success /\ backend.summary # None /\ backend.summary[1] # <<>>
    THEN LET summary == post_process_summary(backend.summary[1])
         IN  /\ sum_article' =
                    [sum_article EXCEPT
                        !.summary = Some(summary),
                        !.is_summary_generated = TRUE,
                        !.metadata = [summarization_model     |-> model_name,
                                      summarization_timestamp |-> Some(now)]]
             /\ sum_result' = Success(summary)
    ELSE /\ sum_article' = [sum_article EXCEPT !.is_summary_generated = TRUE]
         /\ sum_result' = Failure(backend.error)

\* The end of summarize_article, given what the backend method returned.
Finish(backend) ==
    IF backend.success /\ backend.summary # None /\ backend.summary[1] # <<>>
    THEN LET summary == post_process_summary(backend.summary[1])
         IN  /\ sum_article' =
                    [sum_article EXCEPT
                        !.summary = Some(summary),
                        !.is_summary_generated = TRUE,
                        !.metadata = [summarization_model     |-> model_name,
                                      summarization_timestamp |-> Some(now)]]
             /\ sum_result' = Success(summary)
    ELSE /\ sum_article' = sum_article
         /\ sum_result' = Failure(backend.error)

BackendReturned(success, summary, error) ==
    [success |-> success, summary |-> summary, error |-> error]

\* _summarize_with_openai from the API call on.
OpenAIReplies ==
    /\ sum_pc = "openai"
    /\ backend_log' = Append(backend_log, OpenAIEvent(model_name[1]))
    /\ \/ \E text \in BackendSummaries :
              Finish(BackendReturned(TRUE, Some(Strip(text)), None))
       \/ Finish(BackendReturned(FALSE, None, Some("Empty response from OpenAI")))
       \/ Finish(BackendReturned(FALSE, None, Some("OpenAI summarization error")))
    /\ sum_pc' = "done"
    /\ UNCHANGED <<model_name, local_models, openai_client, article_before>>
    /\ UNCHANGED <<sourceVars, fetchVars, callVars, storeVars, batchVars>>

\* _summarize_with_huggingface from the call of the pipeline on.
PipelineReplies ==
    /\ sum_pc = "pipeline"
    /\ backend_log' = Append(backend_log, PipelineEvent(model_name[1]))
    /\ \/ \E text \in BackendSummaries :
              Finish(BackendReturned(TRUE, Some(text), None))
       \/ Finish(BackendReturned(FALSE, None, Some("Empty result from Hugging Face model")))
       \/ Finish(BackendReturned(FALSE, None, Some("Hugging Face summarization error")))
    /\ sum_pc' = "done"
    /\ UNCHANGED <<model_name, local_models, openai_client, article_before>>
    /\ UNCHANGED <<sourceVars, fetchVars, callVars, storeVars, batchVars>>

\* What an article carries from before the call: nothing, or the summary of
\* an earlier successful call.
EarlierSummaries ==
    { [ summary |-> None, is_summary_generated |-> FALSE, metadata |-> None ],
      [ summary |-> Some(<<"debt", Blank, "falls", ".">>), is_summary_generated |-> TRUE,
        metadata |-> [summarization_model     |-> Some("t5-small"),
                      summarization_timestamp |-> Some(0)] ] }

InitSummarize ==
    /\ SourceIdle
    /\ source = NewSource(TRUE, 2, 1, 2, TRUE, <<>>, <<>>)
    /\ MAX_RETRIES = DEFAULT_MAX_RETRIES
    /\ FetchIdle
    /\ CallIdle
    /\ StoreIdle
    /\ \E content \in Contents, earlier \in EarlierSummaries :
           sum_article = [ content |-> content, summary |-> earlier.summary,
                           is_summary_generated |-> earlier.is_summary_generated,
                           metadata |-> earlier.metadata ]
    /\ model_name = None
    /\ sum_pc = "idle"
    /\ local_models \in {{}, {"t5-small"}}
    /\ openai_client \in BOOLEAN
    /\ backend_log = <<>>
    /\ sum_result = None
    /\ article_before = None
    /\ BatchIdle

NextSummarize ==
    \/ SummarizeStart
    \/ LoadModel
    \/ OpenAIReplies
    \/ PipelineReplies

SpecSummarize == InitSummarize /\ [][NextSummarize]_vars

\* The characters of the content that are not leading or trailing blanks.
BareLength(content) ==
    LET inked == {i \in DOMAIN content : content[i] # Blank}
    IN  IF inked = {} THEN 0
        ELSE 1 + (CHOOSE hi \in inked : \A i \in inked : i <= hi)
               - (CHOOSE lo \in inked : \A i \in inked : lo <= i)

KnownModels == {"bart-large-cnn", "pegasus-xsum", "t5-small", "gpt-3.5-turbo", "gpt-4"}

\* C18: a call with a model the router does not know, or with content of fewer
\* than 100 characters, returns a failure with an error message, and neither
\* calls a backend nor loads a model.
C18_RejectedBeforeBackend ==
    (/\ sum_pc = "done"
     /\ \/ model_name[1] \notin KnownModels
        \/ BareLength(sum_article.content) < 100)
        => /\ sum_result # None
           /\ ~sum_result[1].success
           /\ sum_result[1].summary = None
           /\ sum_result[1].error # None
           /\ backend_log = <<>>

C18_Witness ==
    /\ sum_pc = "done"
    /\ model_name = Some("t5-small")
    /\ local_models = {}
    /\ Len(sum_article.content) = 101
    /\ BareLength(sum_article.content) = 99
    /\ sum_result = Failure(Some("Article content too short for summarization"))
    /\ backend_log = <<>>

\* C20: when summarize_article reports success, the summary it returns is
\* the one stored on the article, is not empty, and ends with ".", "!" or "?".
C20_SuccessHasPunctuatedSummary ==
    (sum_pc = "done" /\ sum_result[1].success)
        => /\ sum_result[1].summary # None
           /\ sum_article.summary = sum_result[1].summary
           /\ sum_article.is_summary_generated
           /\ sum_result[1].summary[1] # <<>>
           /\ sum_result[1].summary[1][Len(sum_result[1].summary[1])] \in {".", "!", "?"}

(***************************************************************************)
(* Further properties of the operations above.                             *)
(***************************************************************************)

\* C25 (under SpecFetch): while a fetch of the source is in flight, started
\* and its outcome not yet recorded, the eligibility check does not admit
\* another fetch of the source.
C25_NoFetchAdmittedWhileInFlight ==
    pc \notin {"idle", "done"} => ~needs_fetch(source, now)

\* C26 (under SpecSummarize): a failed summarize_article carries no summary
\* and an error message that is present and not empty.
C26_FailureCarriesReason ==
    (sum_pc = "done" /\ ~sum_result[1].success)
        => /\ sum_result[1].summary = None
           /\ sum_result[1].error # None
           /\ sum_result[1].error[1] # ""

\* Fetch attempts recorded on the source so far, successes plus failures.
TotalFetchAttempts == source.total_successful_fetches + source.total_failed_fetches

\* C27 (under SpecHealth): after every recorded outcome, success or failure,
\* avg_articles_per_fetch is total_articles_fetched divided by the number of
\* fetch attempts recorded so far.
C27_AverageOverAllAttempts ==
    lastOp \in {"record_success", "record_failure"} =>
        /\ TotalFetchAttempts > 0
        /\ source.avg_articles_per_fetch[2] > 0
        /\ source.avg_articles_per_fetch[1] * TotalFetchAttempts
              = source.total_articles_fetched * source.avg_articles_per_fetch[2]

C27_Witness ==
    /\ lastOp = "record_failure"
    /\ source.total_successful_fetches = 1
    /\ source.total_failed_fetches = 2
    /\ source.total_articles_fetched = 2
    /\ source.avg_articles_per_fetch = <<2, 3>>

(***************************************************************************)
(* _parse_date as a function.  A date field of an entry is absent (None),  *)
(* malformed, or well formed with the date it denotes; dates are numbers   *)
(* other than the clock reading.                                           *)
(***************************************************************************)

Malformed == [ok |-> FALSE, date |-> 0]
WellFormed(date) == [ok |-> TRUE, date |-> date]

DateFieldNames == <<"published_parsed", "updated_parsed", "published", "updated">>

\* The values of the date field number k of an entry.
DateFieldValues(k) == {None, Some(Malformed), Some(WellFormed(k))}

\* RSSScraperService._parse_date_string: the datetime, or None when no format
\* and no fallback parser reads the string.
parse_date_string(date_string) ==
    IF date_string.ok THEN Some(date_string.date) ELSE None

\* RSSScraperService._parse_date
parse_date(entry) ==
    IF entry.published_parsed # None /\ entry.published_parsed[1].ok
    THEN Some(entry.published_parsed[1].date)
    ELSE IF entry.updated_parsed # None /\ entry.updated_parsed[1].ok
    THEN Some(entry.updated_parsed[1].date)
    ELSE IF entry.published # None THEN parse_date_string(entry.published[1])
    ELSE IF entry.updated # None THEN parse_date_string(entry.updated[1])
    ELSE None

\* published_date of _extract_article_data at clock reading t.
published_date(entry, t) ==
    IF parse_date(entry) # None THEN parse_date(entry)[1] ELSE t

InitDate ==
    /\ SourceIdle
    /\ source = NewSource(TRUE, 2, 1, 2, TRUE, <<>>, <<>>)
    /\ MAX_RETRIES = DEFAULT_MAX_RETRIES
    /\ FetchIdle
    /\ \E pp \in DateFieldValues(1), up \in DateFieldValues(2),
          ps \in DateFieldValues(3), us \in DateFieldValues(4) :
           call = Some([published_parsed |-> pp, updated_parsed |-> up,
                        published |-> ps, updated |-> us])
    /\ ret = None
    /\ StoreIdle
    /\ SumIdle
    /\ BatchIdle

Call_parse_date ==
    /\ ret = None
    /\ ret' = Some(published_date(call[1], now))
    /\ UNCHANGED <<call, sourceVars, fetchVars, storeVars, sumVars, batchVars>>

NextDate == Call_parse_date

SpecDate == InitDate /\ [][NextDate]_vars

\* The fields of the entry that hold a well-formed date, by their rank.
WellFormedFields(entry) ==
    {k \in 1..4 : entry[DateFieldNames[k]] # None /\ entry[DateFieldNames[k]][1].ok}

\* C28: the published date is the first well-formed value in the order
\* published_parsed, updated_parsed, published, updated, and the clock
\* reading when none of the four is well formed.
C28_FirstWellFormedDate ==
    ret # None =>
        LET good == WellFormedFields(call[1])
            first == CHOOSE k \in good : \A j \in good : k <= j
        IN  ret[1] = IF good = {} THEN now
                     ELSE call[1][DateFieldNames[first]][1].date

SUMMARY_BATCH_SIZE == 4

BatchSizes    == {None, Some(0), Some(1), Some(2)}  \* batch_size arguments explored
BatchModels   == {None, Some("gpt-4")}          \* model_name arguments explored
BatchContents == {Content(0, 99, 0), Content(0, 100, 0)}
BatchReplies  == {"summary", "error", "raised"} \* how a backend call of a task ends

\* str(article.id)
ArticleId(a) == ToString(a.id)

NumArticles == Len(batch_articles)

\* if not batch_size: batch_size = settings.SUMMARY_BATCH_SIZE
EffectiveBatchSize ==
    IF batch_size = None \/ batch_size = Some(0) THEN SUMMARY_BATCH_SIZE ELSE batch_size[1]

\* The last index of articles[i:i + batch_size], one wider than the slice.
BatchHi_wide(lo, size, n) == IF lo + size < n THEN lo + size ELSE n

\* The last index of articles[i:i + batch_size].
BatchHi(lo, size, n) == IF lo + size - 1 < n THEN lo + size - 1 ELSE n

CurrentBatch == batch_lo..BatchHi(batch_lo, EffectiveBatchSize, NumArticles)

\* The model a call uses: the one asked for, or the default.
ResolvedModel == IF model_name = None THEN DefaultModel ELSE model_name[1]

NeedsLoad_always(name, models) == TRUE

\* if model_name not in self.local_models (and the same test inside
\* _load_huggingface_model)
NeedsLoad(name, models) == name \notin models

LoadAttempt(model, ok, i) == [ev |-> "load", model |-> model, ok |-> ok, item |-> i]
BackendCall(ev, model, i) == [ev |-> ev, model |-> model, ok |-> TRUE, item |-> i]

\* How a task ended: with the tuple it returned, or with the exception it
\* raised, kept by its message.
Returns(value) == Some([raised |-> FALSE, value |-> value, message |-> ""])
Raises(message) ==
    Some([raised |-> TRUE, value |-> Failure(None)[1], message |-> message])

\* The end of summarize_article as a value: the tuple it returns.
finish_result(backend) ==
    IF backend.success /\ backend.summary # None /\ backend.summary[1] # <<>>
    THEN Success(post_process_summary(backend.summary[1]))[1]
    ELSE Failure(backend.error)[1]

\* What a task that got the given reply from its backend ends with.
ReplyOutcome(reply) ==
    CASE reply = "summary" ->
             Returns(finish_result(BackendReturned(TRUE, Some(<<"taxes", Blank, "rise">>), None)))
      [] reply = "error" ->
             Returns(finish_result(BackendReturned(FALSE, None, Some("summarization error"))))
      [] OTHER -> Raises("raised")

\* The entry of the results dict a task's outcome gives, under
\* return_exceptions=True.
GatherResult(o) == IF o.raised THEN Failure(Some(o.message))[1] ELSE o.value

Succeeded(o) == ~o.raised /\ o.value.success

\* The loop over the tasks of a batch, had one failed task failed them all.
collect_failing_batch(res, lo, hi) ==
    LET ids == {ArticleId(batch_articles[j]) : j \in lo..hi}
        at(k) == CHOOSE j \in lo..hi : ArticleId(batch_articles[j]) = k
        failed == \E j \in lo..hi : ~Succeeded(task_outcome[j][1])
    IN  [k \in DOMAIN res \cup ids |->
            IF k \in ids
            THEN IF failed THEN Failure(Some("batch failed"))[1]
                 ELSE GatherResult(task_outcome[at(k)][1])
            ELSE res[k]]

\* The loop over the tasks of a batch: results[str(article_id)] = ...
collect(res, lo, hi) ==
    LET ids == {ArticleId(batch_articles[j]) : j \in lo..hi}
        at(k) == CHOOSE j \in lo..hi : ArticleId(batch_articles[j]) = k
    IN  [k \in DOMAIN res \cup ids |->
            IF k \in ids THEN GatherResult(task_outcome[at(k)][1]) ELSE res[k]]

backfill_none(res) == res

\* The except clause: every article without an entry gets a failure.
backfill(res) ==
    LET ids == {ArticleId(batch_articles[j]) : j \in 1..NumArticles}
    IN  [k \in DOMAIN res \cup ids |->
            IF k \in DOMAIN res THEN res[k]
            ELSE Failure(Some("Batch processing error"))[1]]

BatchStart ==
    /\ batch_pc = "idle"
    /\ batch_pc' = "running"
    /\ batch_lo' = 1
    /\ results' = <<>>
    /\ UNCHANGED <<batch_articles, batch_size, task, task_outcome, batch_raised>>
    /\ UNCHANGED <<sourceVars, fetchVars, callVars, storeVars, sumVars>>

\* A task from its start to its first suspension or, when it is rejected or
\* the model does not load, to its end.
ItemStart ==
    /\ batch_pc = "running"
    /\ \E i \in CurrentBatch :
        LET name    == ResolvedModel
            content == batch_articles[i].content
            ends(returned) ==
                /\ task' = [task EXCEPT ![i] = "done"]
                /\ task_outcome' = [task_outcome EXCEPT ![i] = Returns(returned[1])]
            awaits ==
                /\ task' = [task EXCEPT ![i] = "awaiting"]
                /\ task_outcome' = task_outcome
        IN  /\ task[i] = "new"
            /\ IF ContentTooShort(content)
               THEN /\ ends(Failure(Some("Article content too short for summarization")))
                    /\ UNCHANGED <<local_models, backend_log>>
               ELSE IF name \notin DOMAIN model_configs
               THEN /\ ends(Failure(Some("Unknown model")))
                    /\ UNCHANGED <<local_models, backend_log>>
               ELSE IF model_configs[name] = "openai"
               THEN IF ~openai_client
                    THEN /\ ends(Failure(Some("OpenAI client not available")))
                         /\ UNCHANGED <<local_models, backend_log>>
                    ELSE /\ awaits
                         /\ backend_log' = Append(backend_log, BackendCall("openai", name, i))
                         /\ UNCHANGED local_models
               ELSE IF NeedsLoad(name, local_models)
                    THEN \E loaded \in BOOLEAN :
                            IF loaded
                            THEN /\ awaits
                                 /\ local_models' = local_models \cup {name}
                                 /\ backend_log' = backend_log \o
                                        <<LoadAttempt(name, TRUE, i),
                                          BackendCall("pipeline", name, i)>>
                            ELSE /\ ends(Failure(Some("Failed to load model")))
                                 /\ local_models' = local_models
                                 /\ backend_log' =
                                        Append(backend_log, LoadAttempt(name, FALSE, i))
                    ELSE /\ awaits
                         /\ backend_log' = Append(backend_log, BackendCall("pipeline", name, i))
                         /\ UNCHANGED local_models
    /\ UNCHANGED <<batch_articles, batch_size, batch_pc, batch_lo, results, batch_raised>>
    /\ UNCHANGED <<sum_article, model_name, sum_pc, openai_client, sum_result,
                   article_before>>
    /\ UNCHANGED <<sourceVars, fetchVars, callVars, storeVars>>

\* A task from the reply of its backend to its end.
ItemReplies ==
    /\ \E i \in DOMAIN task, reply \in BatchReplies :
        LET o == ReplyOutcome(reply)
        IN  /\ task[i] = "awaiting"
            /\ task' = [task EXCEPT ![i] = "done"]
            /\ task_outcome' = [task_outcome EXCEPT ![i] = o]
            /\ batch_articles' =
                   IF Succeeded(o[1])
                   THEN [batch_articles EXCEPT
                            ![i].summary = o[1].value.summary,
                            ![i].is_summary_generated = TRUE]
                   ELSE batch_articles
    /\ UNCHANGED <<batch_size, batch_pc, batch_lo, results, batch_raised>>
    /\ UNCHANGED <<sourceVars, fetchVars, callVars, storeVars, sumVars>>

\* The backend call of a task never completes.
ItemHangs ==
    /\ \E i \in DOMAIN task :
           /\ task[i] = "awaiting"
           /\ task' = [task EXCEPT ![i] = "hung"]
    /\ UNCHANGED <<batch_articles, batch_size, batch_pc, batch_lo, task_outcome,
                   results, batch_raised>>
    /\ UNCHANGED <<sourceVars, fetchVars, callVars, storeVars, sumVars>>

\* asyncio.gather returns: every task of the batch has ended; the results of
\* the batch are stored and the loop goes on to the next batch.
BatchJoin ==
    /\ batch_pc = "running"
    /\ batch_lo <= NumArticles
    /\ \A j \in CurrentBatch : task[j] = "done"
    /\ results' = collect(results, batch_lo,
                          BatchHi(batch_lo, EffectiveBatchSize, NumArticles))
    /\ batch_lo' = batch_lo + EffectiveBatchSize
    /\ UNCHANGED <<batch_articles, batch_size, batch_pc, task, task_outcome,
                   batch_raised>>
    /\ UNCHANGED <<sourceVars, fetchVars, callVars, storeVars, sumVars>>

\* The loop is over: return results.
BatchReturn ==
    /\ batch_pc = "running"
    /\ batch_lo > NumArticles
    /\ batch_pc' = "returned"
    /\ UNCHANGED <<batch_articles, batch_size, batch_lo, task, task_outcome,
                   results, batch_raised>>
    /\ UNCHANGED <<sourceVars, fetchVars, callVars, storeVars, sumVars>>

\* An exception while the tasks of a batch are being made: the except
\* clause fills the missing entries and the call returns.
BatchRaises ==
    /\ batch_pc = "running"
    /\ batch_lo <= NumArticles
    /\ \A j \in CurrentBatch : task[j] = "new"
    /\ results' = backfill(results)
    /\ batch_raised' = TRUE
    /\ batch_pc' = "returned"
    /\ UNCHANGED <<batch_articles, batch_size, batch_lo, task, task_outcome>>
    /\ UNCHANGED <<sourceVars, fetchVars, callVars, storeVars, sumVars>>

InitBatch ==
    /\ SourceIdle
    /\ source = NewSource(TRUE, 2, 1, 2, TRUE, <<>>, <<>>)
    /\ MAX_RETRIES = DEFAULT_MAX_RETRIES
    /\ FetchIdle
    /\ CallIdle
    /\ StoreIdle
    /\ sum_article = None
    /\ model_name \in BatchModels
    /\ sum_pc = "idle"
    /\ local_models = {}
    /\ openai_client = TRUE
    /\ backend_log = <<>>
    /\ sum_result = None
    /\ article_before = None
    /\ \E n \in 0..MaxArticles : \E contents \in [1..n -> BatchContents] :
           /\ batch_articles = [i \in 1..n |->
                                   [ id |-> i, content |-> contents[i], summary |-> None,
                                     is_summary_generated |-> FALSE ]]
           /\ task = [i \in 1..n |-> "new"]
           /\ task_outcome = [i \in 1..n |-> None]
    /\ batch_size \in BatchSizes
    /\ batch_pc = "idle"
    /\ batch_lo = 1
    /\ results = <<>>
    /\ batch_raised = FALSE

NextBatch ==
    \/ BatchStart
    \/ ItemStart
    \/ ItemReplies
    \/ ItemHangs
    \/ BatchJoin
    \/ BatchReturn
    \/ BatchRaises

SpecBatch == InitBatch /\ [][NextBatch]_vars

\* The same, every step that can be taken being taken in the end.
SpecBatchLive == InitBatch /\ [][NextBatch]_vars /\ WF_vars(NextBatch)

(***************************************************************************)
(* batch_summarize_articles: properties under SpecBatch.                   *)
(***************************************************************************)

InputIds == {ToString(batch_articles[i].id) : i \in DOMAIN batch_articles}

OwnEntry(i) ==
    IF task_outcome[i][1].raised
    THEN [success |-> FALSE, summary |-> None, error |-> Some(task_outcome[i][1].message)]
    ELSE task_outcome[i][1].value

\* C22: the failure of one call, returned or raised, is the entry of its own
\* article only: every article whose call ended has, once its batch is
\* stored, the entry its own call gave, and when no exception interrupted
\* the batches every call was made and ended.
C22_FailureStaysInItsSlot ==
    /\ \A i \in DOMAIN batch_articles :
           (task[i] = "done" /\ ToString(batch_articles[i].id) \in DOMAIN results)
               => results[ToString(batch_articles[i].id)] = OwnEntry(i)
    /\ (batch_pc = "returned" /\ ~batch_raised)
           => \A i \in DOMAIN batch_articles :
                  /\ task[i] = "done"
                  /\ ToString(batch_articles[i].id) \in DOMAIN results

C22_Witness ==
    /\ batch_pc = "returned"
    /\ ~batch_raised
    /\ NumArticles = 3
    /\ batch_size = Some(2)
    /\ task_outcome[1][1].raised
    /\ ~results["1"].success
    /\ results["2"].success
    /\ results["3"].success

\* The batch an article falls in, counted from 0.
BatchIndex(i) == (i - 1) \div EffectiveBatchSize

InFlight == {i \in DOMAIN task : task[i] \in {"awaiting", "hung"}}

\* C23: no call of a later batch has started before every call of the
\* earlier batches has ended, and at most batch_size calls are in flight.
C23_BatchesOneAfterAnother ==
    /\ \A i, j \in DOMAIN task :
           (BatchIndex(i) < BatchIndex(j) /\ task[j] # "new") => task[i] = "done"
    /\ Cardinality(InFlight) <= EffectiveBatchSize

C23_Witness ==
    /\ NumArticles = 3
    /\ batch_size = Some(2)
    /\ task = <<"done", "done", "awaiting">>
    /\ batch_lo = 3

SomeItemHung == \E i \in DOMAIN task : task[i] = "hung"

\* C24 (under SpecBatchLive): when the backend call of one task never
\* completes, the batch call still returns in the end.
C24_HungItemSurfaces == SomeItemHung ~> (batch_pc = "returned")

Loads == SelectSeq(backend_log, LAMBDA e : e.ev = "load")

\* C29: whatever the interleaving of the calls, a local model is loaded only
\* by a call that finds it missing, at most once with success, and never
\* after a successful load; a failed load registers nothing and its call
\* returns a failure.
C29_ModelLoadedAtMostOnce ==
    /\ Cardinality({k \in DOMAIN Loads : Loads[k].ok}) <= 1
    /\ \A k, l \in DOMAIN backend_log :
           (k < l /\ backend_log[k].ev = "load" /\ backend_log[k].ok)
               => backend_log[l].ev # "load"
    /\ local_models = {Loads[k].model : k \in {l \in DOMAIN Loads : Loads[l].ok}}
    /\ \A k \in DOMAIN Loads :
           ~Loads[k].ok =>
               /\ task[Loads[k].item] = "done"
               /\ ~task_outcome[Loads[k].item][1].raised
               /\ ~task_outcome[Loads[k].item][1].value.success
    /\ \A k \in DOMAIN backend_log :
           backend_log[k].ev = "pipeline" => backend_log[k].model \in local_models

C29_Witness ==
    /\ NumArticles = 3
    /\ batch_size = None
    /\ Len(Loads) = 2
    /\ ~Loads[1].ok
    /\ Loads[2].ok
    /\ Len(SelectSeq(backend_log, LAMBDA e : e.ev = "pipeline")) = 2
    /\ task = <<"done", "awaiting", "awaiting">>

InitHealth ==
    /\ now = 0
    /\ \E active \in BOOLEAN, interval \in FetchIntervals :
           source = NewSource(active, interval, 1, 2, TRUE, <<>>, <<>>)
    /\ lastOp = "none"
    /\ failRun = 0
    /\ prevFailRun = 0
    /\ prevStatus = "healthy"
    /\ statsCalls = 0
    /\ fetchedAt = None
    /\ MAX_RETRIES = DEFAULT_MAX_RETRIES
    /\ FetchIdle
    /\ CallIdle
    /\ StoreIdle
    /\ SumIdle
    /\ BatchIdle

NextHealth ==
    \/ Tick
    \/ UpdateHealthStatus
    \/ UpdateFetchStats
    \/ RecordOutcome

SpecHealth == InitHealth /\ [][NextHealth]_vars

====
